---------------------------- MODULE Spec2Model ----------------------------
(***************************************************************************)
(* gymbot: a Telegram bot that tracks gym workouts.                        *)
(*                                                                         *)
(* The module models                                                       *)
(*   - src/workouts.py: templates, Workout.from_template,                  *)
(*     Workout.make_next (the progression engine), toggle_set_completed,   *)
(*     change_reps, change_weight;                                         *)
(*   - src/main.py: button and handle_message, the callback dispatch;      *)
(*   - the action registry of spec section 4.2 (no file under src/ holds   *)
(*     it; it is modelled from the spec's text).                           *)
(*                                                                         *)
(* Weights are floats in the source.  Here a weight is an integer number   *)
(* of thousandths of a kilogram, so that round(x, 2) is an operation that  *)
(* can change a value (Round2).  Every weight and weight_delta of the      *)
(* catalog is a multiple of 0.5 kg, which binary floating point            *)
(* represents exactly, as it does their sums and differences.              *)
(*                                                                         *)
(* Python lists are 0-based, TLA+ sequences 1-based: index i of the        *)
(* source is index i+1 here.                                               *)
(***************************************************************************)
EXTENDS Integers, Sequences, FiniteSets, TLC

VARIABLES
    history,    \* context.user_data["active_workout"]: the session's workouts
    stored,     \* the JSON document db.store_json last wrote for the user
    diffs,      \* the List[ExerciseDiff] of the latest make_next
    reply,      \* what the latest handler sent to the chat
    last,       \* the latest message handled: kind and arguments
    steps,      \* number of updates handled in this session
    entries,    \* registry: live tokens, oldest first
    issued,     \* registry: number of tokens generated so far
    calls,      \* registry: calls[t] = times the action of token t was invoked
    outcome,    \* registry: result of the latest register / run
    tx_pc,      \* Transaction: where the with statement stands
    tx_cursor,  \* Transaction: self.cursor, "none", "open" or "closed"
    tx_log,     \* Transaction: the statements executed on the cursor, in order
    tx_exc,     \* Transaction: the exception the body ended with, or "None"
    tx_raised,  \* Transaction: the exception that leaves the with statement
    tx_active,  \* the connection has a transaction open
    tx_count    \* number of Transaction objects made so far

vars == <<history, stored, diffs, reply, last, steps, entries, issued, calls, outcome,
          tx_pc, tx_cursor, tx_log, tx_exc, tx_raised, tx_active, tx_count>>

workoutVars == <<history, stored, diffs, reply, last, steps>>
registryVars == <<entries, issued, calls, outcome>>
txVars == <<tx_pc, tx_cursor, tx_log, tx_exc, tx_raised, tx_active, tx_count>>

\* no Transaction has been made
TxIdle ==
    /\ tx_pc = "idle"
    /\ tx_cursor = "none"
    /\ tx_log = <<>>
    /\ tx_exc = "None"
    /\ tx_raised = "None"
    /\ tx_active = FALSE
    /\ tx_count = 0

-----------------------------------------------------------------------------
(* Bounds of the model *)

\* a session's history holds at most MaxHistory workouts
MaxHistory == 5
\* a session handles at most MaxSteps updates
MaxSteps == 3
\* exercises kept of each workout template (the source lists 7 each)
NumExercises == 1
\* the registry's configured limit (spec section 4.2: default 10,000)
limit == 10
\* the registry runs at most MaxRuns tokens
MaxRuns == 2
\* register_noop is called at most MaxNoops times
MaxNoops == 1
\* Transaction objects made on the connection
MaxTransactions == 2
\* statements the body of a with statement executes
MaxStatements == 2
\* a session that starts from the long stored history handles at most
\* MaxBaselineSteps updates
MaxBaselineSteps == 2

-----------------------------------------------------------------------------
(* Helpers *)

Min(S) == CHOOSE x \in S : \A y \in S : x <= y
Max(S) == CHOOSE x \in S : \A y \in S : x >= y
Last(s) == s[Len(s)]

\* Python's round(x, 2) on a weight in thousandths of a kilogram: to the
\* nearest hundredth, a tie going to the even hundredth.
Round2(x) ==
    LET r == x % 10
        lo == x - r
    IN  IF r < 5 THEN lo
        ELSE IF r > 5 THEN lo + 10
        ELSE IF (lo \div 10) % 2 = 0 THEN lo ELSE lo + 10

-----------------------------------------------------------------------------
(* src/workouts.py: templates *)

ExerciseTemplate(name, long_cycle_progression, weight, weight_delta, sets, reps) ==
    [name |-> name, long_cycle_progression |-> long_cycle_progression,
     weight |-> weight, weight_delta |-> weight_delta, sets |-> sets, reps |-> reps]

default_exercise_templates ==
    << ExerciseTemplate("Squat",                  TRUE,  40000, 5000, 3, 12),
       ExerciseTemplate("Bench Press",            TRUE,  30000, 2500, 3, 12),
       ExerciseTemplate("Barbell Row",            TRUE,  30000, 2500, 3, 12),
       ExerciseTemplate("Lying Tricep Extension", TRUE,      0, 2500, 3, 12),
       ExerciseTemplate("Leg Curl",               TRUE,      0, 5000, 3, 12),
       ExerciseTemplate("Dumbbell Curl",          TRUE,   6000, 1000, 3, 12),
       ExerciseTemplate("Weighted Sit Up",        FALSE, 25000, 5000, 3, 20),
       ExerciseTemplate("Deadlift",               TRUE,  40000, 5000, 3, 12),
       ExerciseTemplate("Overhead Press",         TRUE,  20000, 2500, 3, 12),
       ExerciseTemplate("Pull Ups",               FALSE,     0,    0, 3, 12),
       ExerciseTemplate("Lat Pulls",              FALSE, 25000, 7000, 3, 20),
       ExerciseTemplate("Dips",                   FALSE,     0,    0, 3, 12),
       ExerciseTemplate("Seated Calf Raise",      TRUE,  20000, 5000, 3, 12),
       ExerciseTemplate("Power Barbell Shrug",    TRUE,  50000, 2500, 3, 12),
       ExerciseTemplate("Plank",                  FALSE,     0,    0, 3, 60) >>

\* {x.name: x for x in _default_exercise_templates}: a later entry of the
\* same name replaces an earlier one
name_to_template(n) ==
    LET at == {i \in DOMAIN default_exercise_templates :
                  default_exercise_templates[i].name = n}
    IN  default_exercise_templates[Max(at)]

WorkoutTemplate(name, exercise_names) ==
    [name |-> name,
     exercises |-> [i \in 1..Len(exercise_names) |-> name_to_template(exercise_names[i])]]

\* the catalog; each template keeps the first NumExercises of its exercises
long_cycle_workout_templates ==
    << WorkoutTemplate("Long Cycle Progression Workout #1",
           SubSeq(<<"Squat", "Bench Press", "Barbell Row", "Lying Tricep Extension",
                    "Leg Curl", "Dumbbell Curl", "Weighted Sit Up">>, 1, NumExercises)),
       WorkoutTemplate("Long Cycle Progression Workout #2",
           SubSeq(<<"Deadlift", "Overhead Press", "Lat Pulls", "Dips",
                    "Seated Calf Raise", "Power Barbell Shrug", "Plank">>, 1, NumExercises)) >>

-----------------------------------------------------------------------------
(* src/workouts.py: workouts.  The uuid ids of workouts, exercises and sets  *)
(* are read by no operation; an object is identified by its position in the *)
(* history.                                                                 *)

WorkoutSet(weight, reps, completed) ==
    [weight |-> weight, reps |-> reps, completed |-> completed]

\* Exercise.from_template
Exercise_from_template(template) ==
    [template |-> template,
     sets |-> [i \in 1..template.sets |->
                  WorkoutSet(template.weight, template.reps, FALSE)]]

\* Workout.from_template
from_template(template) ==
    [template_name |-> template.name,
     exercises |-> [i \in 1..Len(template.exercises) |->
                       Exercise_from_template(template.exercises[i])]]

\* toggle_set_completed that only ever marks a set completed
toggle_set_completed_mark(s) == [s EXCEPT !.completed = TRUE]

\* Workout.toggle_set_completed, on set s
toggle_set_completed(s) == [s EXCEPT !.completed = ~s.completed]

\* change_reps without the clamp at 0
change_reps_unclamped(exercise, increase) ==
    LET delta == IF increase THEN 1 ELSE -1
    IN  [exercise EXCEPT !.sets =
            [i \in DOMAIN exercise.sets |->
                IF ~exercise.sets[i].completed
                THEN [exercise.sets[i] EXCEPT !.reps = exercise.sets[i].reps + delta]
                ELSE exercise.sets[i]]]

\* Workout.change_reps: the exercise after the call
change_reps(exercise, increase) ==
    LET delta == IF increase THEN 1 ELSE -1
    IN  [exercise EXCEPT !.sets =
            [i \in DOMAIN exercise.sets |->
                IF ~exercise.sets[i].completed
                THEN [exercise.sets[i] EXCEPT !.reps = Max({0, exercise.sets[i].reps + delta})]
                ELSE exercise.sets[i]]]

\* change_weight without the test of completed
change_weight_every_set(exercise, increase) ==
    LET delta == IF increase THEN exercise.template.weight_delta
                 ELSE -exercise.template.weight_delta
    IN  [exercise EXCEPT !.sets =
            [i \in DOMAIN exercise.sets |->
                [exercise.sets[i] EXCEPT !.weight = Round2(exercise.sets[i].weight + delta)]]]

\* Workout.change_weight: the exercise after the call
change_weight(exercise, increase) ==
    LET delta == IF increase THEN exercise.template.weight_delta
                 ELSE -exercise.template.weight_delta
    IN  [exercise EXCEPT !.sets =
            [i \in DOMAIN exercise.sets |->
                IF ~exercise.sets[i].completed
                THEN [exercise.sets[i] EXCEPT !.weight = Round2(exercise.sets[i].weight + delta)]
                ELSE exercise.sets[i]]]

ExerciseDiff(exercise_name, sets_completed, weight_before, weight_after, reps_before, reps_after) ==
    [exercise_name |-> exercise_name, sets_completed |-> sets_completed,
     weight_before |-> weight_before, weight_after |-> weight_after,
     reps_before |-> reps_before, reps_after |-> reps_after]

-----------------------------------------------------------------------------
(* src/workouts.py: Workout.make_next *)

\* next_workout_idx with the step to the following template left out
next_workout_idx_same(previous_workouts, templates) ==
    IF previous_workouts = <<>> THEN 1
    ELSE LET name == Last(previous_workouts).template_name
             hits == {i \in 1..Len(templates) : templates[i].name = name}
         IN  IF hits = {} THEN 1
             ELSE Min(hits)

\* lines 238-245: the index of the template of the next workout
next_workout_idx(previous_workouts, templates) ==
    IF previous_workouts = <<>> THEN 1
    ELSE LET name == Last(previous_workouts).template_name
             hits == {i \in 1..Len(templates) : templates[i].name = name}
         IN  IF hits = {} THEN 1
             ELSE (Min(hits) % Len(templates)) + 1

\* previous_with_template that takes the oldest workout of the template
previous_with_template_oldest(previous_workouts, template) ==
    LET hits == {i \in 1..Len(previous_workouts) :
                    previous_workouts[i].template_name = template.name}
    IN  IF hits = {} THEN from_template(template)
        ELSE previous_workouts[Min(hits)]

\* lines 247-253: the newest earlier workout of the template, or a fresh one
previous_with_template(previous_workouts, template) ==
    LET hits == {i \in 1..Len(previous_workouts) :
                    previous_workouts[i].template_name = template.name}
    IN  IF hits = {} THEN from_template(template)
        ELSE previous_workouts[Max(hits)]

\* lines 258-262: positions in the reference workout of the exercises that
\* carry the name; the loop takes the first
prev_exercise_hits(reference, exercise) ==
    {i \in 1..Len(reference.exercises) :
        reference.exercises[i].template.name = exercise.template.name}

sets_completed_class(all_completed, any_completed) ==
    IF all_completed THEN "all" ELSE IF any_completed THEN "some" ELSE "none"

\* progress_exercise variants: each changes one branch of lines 272-276
ProgressWith(exercise, prev_exercise, on_all, on_some, on_none) ==
    LET base_weight == Min({prev_exercise.sets[i].weight : i \in DOMAIN prev_exercise.sets})
        base_reps == Max({prev_exercise.sets[i].reps : i \in DOMAIN prev_exercise.sets})
        based == [exercise EXCEPT !.sets =
                     [i \in DOMAIN exercise.sets |->
                         [exercise.sets[i] EXCEPT !.weight = base_weight, !.reps = base_reps]]]
        all_completed == \A i \in DOMAIN prev_exercise.sets : prev_exercise.sets[i].completed
        any_completed == \E i \in DOMAIN prev_exercise.sets : prev_exercise.sets[i].completed
        apply(how, ex) ==
            CASE how = "weight up" -> change_weight(ex, TRUE)
              [] how = "weight down" -> change_weight(ex, FALSE)
              [] how = "weight and reps down" -> change_reps(change_weight(ex, FALSE), FALSE)
              [] OTHER -> ex
    IN  IF all_completed THEN apply(on_all, based)
        ELSE IF any_completed THEN apply(on_some, based)
        ELSE apply(on_none, based)

\* success earns no weight
progress_exercise_no_reward(exercise, prev_exercise) ==
    ProgressWith(exercise, prev_exercise, "nothing", "weight and reps down", "nothing")

\* a partly completed exercise loses weight but no rep
progress_exercise_keep_reps(exercise, prev_exercise) ==
    ProgressWith(exercise, prev_exercise, "weight up", "weight down", "nothing")

\* an exercise with no set completed is treated as partly completed
progress_exercise_none_regresses(exercise, prev_exercise) ==
    ProgressWith(exercise, prev_exercise, "weight up", "weight and reps down",
                 "weight and reps down")

\* lines 265-276: the new exercise, given the exercise it is compared with
progress_exercise(exercise, prev_exercise) ==
    LET base_weight == Min({prev_exercise.sets[i].weight : i \in DOMAIN prev_exercise.sets})
        base_reps == Max({prev_exercise.sets[i].reps : i \in DOMAIN prev_exercise.sets})
        based == [exercise EXCEPT !.sets =
                     [i \in DOMAIN exercise.sets |->
                         [exercise.sets[i] EXCEPT !.weight = base_weight, !.reps = base_reps]]]
        all_completed == \A i \in DOMAIN prev_exercise.sets : prev_exercise.sets[i].completed
        any_completed == \E i \in DOMAIN prev_exercise.sets : prev_exercise.sets[i].completed
    IN  IF all_completed THEN change_weight(based, TRUE)
        ELSE IF any_completed THEN change_reps(change_weight(based, FALSE), FALSE)
        ELSE based

\* lines 277-284: the diff of one exercise
exercise_diff(exercise, prev_exercise) ==
    LET base_weight == Min({prev_exercise.sets[i].weight : i \in DOMAIN prev_exercise.sets})
        base_reps == Max({prev_exercise.sets[i].reps : i \in DOMAIN prev_exercise.sets})
        all_completed == \A i \in DOMAIN prev_exercise.sets : prev_exercise.sets[i].completed
        any_completed == \E i \in DOMAIN prev_exercise.sets : prev_exercise.sets[i].completed
    IN  ExerciseDiff(exercise.template.name,
                     sets_completed_class(all_completed, any_completed),
                     base_weight, exercise.sets[1].weight,
                     base_reps, exercise.sets[1].reps)

RECURSIVE Flatten(_)
Flatten(ss) == IF ss = <<>> THEN <<>> ELSE Head(ss) \o Flatten(Tail(ss))

\* Workout.make_next: [workout, diffs]
make_next(previous_workouts, templates) ==
    LET template == templates[next_workout_idx(previous_workouts, templates)]
        reference == previous_with_template(previous_workouts, template)
        fresh == from_template(template)
        found(i) == prev_exercise_hits(reference, fresh.exercises[i]) # {}
        prev(i) == reference.exercises[Min(prev_exercise_hits(reference, fresh.exercises[i]))]
        exercises == [i \in DOMAIN fresh.exercises |->
                         IF found(i) THEN progress_exercise(fresh.exercises[i], prev(i))
                         ELSE fresh.exercises[i]]
    IN  [workout |-> [fresh EXCEPT !.exercises = exercises],
         diffs |-> Flatten([i \in DOMAIN fresh.exercises |->
                       IF found(i) THEN <<exercise_diff(exercises[i], prev(i))>>
                       ELSE <<>>])]

-----------------------------------------------------------------------------
(* The session.  get_workouts loads the user's stored workouts on first use; *)
(* the initial state is the session right after that load.  on_message       *)
(* changes no state of its own: it replies, or hands WORKOUT_START to        *)
(* handle_message (HandleWorkoutStart).                                      *)

Template1 == long_cycle_workout_templates[1]
Template2 == long_cycle_workout_templates[2]

\* the first exercise of a workout with its sets replaced
WithFirstSets(workout, sets) == [workout EXCEPT !.exercises[1].sets = sets]

\* A workout of template #1 as eleven "reps down", a toggle of set 1, a
\* "weight down", a toggle of set 3 and a "reps down" leave it.
StoredPartial ==
    WithFirstSets(from_template(Template1),
        << WorkoutSet(40000, 1, TRUE), WorkoutSet(35000, 0, FALSE), WorkoutSet(35000, 1, TRUE) >>)

\* A workout of template #1 as eight "weight down" and a toggle of set 1
\* leave it.
StoredLight ==
    WithFirstSets(from_template(Template1),
        << WorkoutSet(0, 12, TRUE), WorkoutSet(0, 12, FALSE), WorkoutSet(0, 12, FALSE) >>)

\* A workout stored by a version of the bot whose catalog named its
\* templates otherwise.
StoredRetired == [from_template(Template2) EXCEPT !.template_name = "Workout"]

\* Four workouts: StoredLight; the workout of template #2 that followed it;
\* the workout of template #1 that followed, after a toggle of set 1, two
\* "weight up" and a "reps up"; and the workout of template #2 after that.
StoredLong ==
    LET one == <<StoredLight>>
        two == Append(one, make_next(one, long_cycle_workout_templates).workout)
        three == Append(two, make_next(two, long_cycle_workout_templates).workout)
        first == three[3].exercises[1]
        edited == [three EXCEPT ![3].exercises[1] =
                      change_reps(
                          change_weight(
                              change_weight(
                                  [first EXCEPT !.sets[1] = toggle_set_completed(first.sets[1])],
                                  TRUE),
                              TRUE),
                          TRUE)]
    IN  Append(edited, make_next(edited, long_cycle_workout_templates).workout)

\* what db.load_json may return for the user
StoredHistories ==
    { <<>>, <<StoredPartial>>, <<StoredLight>>, <<StoredRetired>> }

MessageKinds ==
    {"empty", "workout_start", "workout_render", "set_toggle_complete",
     "exercise_change_reps", "exercise_change_weight"}

\* the message handled: its kind, then the workout, exercise and set (as
\* positions, 0 when the kind has none) and the increase flag
Message(kind, w, e, s, increase) ==
    [kind |-> kind, w |-> w, e |-> e, s |-> s, increase |-> increase]

REPLY_NONE == "none"
REPLY_FATAL == "Fatal bot error, unknown message!"
REPLY_STARTING == "Starting a new workout!"
REPLY_RESUMING == "Resuming workout!"
REPLY_MARKUP == "edit_message_reply_markup"
RAISED_ATTRIBUTE_ERROR == "AttributeError"

Workouts == 1..Len(history)
ExercisesOf(w) == 1..Len(history[w].exercises)
SetsOf(w, e) == 1..Len(history[w].exercises[e].sets)

Init ==
    /\ history \in StoredHistories
    /\ stored = history
    /\ diffs = <<>>
    /\ reply = REPLY_NONE
    /\ last = Message("none", 0, 0, 0, FALSE)
    /\ steps = 0
    /\ entries = <<>>
    /\ issued = 0
    /\ calls = <<>>
    /\ outcome = [op |-> "none", token |-> 0, result |-> "none"]
    /\ TxIdle

\* button that drops an unknown payload without a word
ButtonUnknown_silent ==
    /\ steps < MaxSteps
    /\ reply' = REPLY_NONE
    /\ last' = Message("unknown", 0, 0, 0, FALSE)
    /\ steps' = steps + 1
    /\ UNCHANGED <<history, stored, diffs>>
    /\ UNCHANGED registryVars
    /\ UNCHANGED txVars

\* button, lines 153-162: the callback data is no tuple headed by a
\* MessageKind.  The bot makes every callback_data itself (render_workout,
\* on_message), so the one such payload is telegram's InvalidCallbackData,
\* which stands for a button whose data the bot no longer holds.
ButtonUnknown ==
    /\ steps < MaxSteps
    /\ reply' = REPLY_FATAL
    /\ last' = Message("unknown", 0, 0, 0, FALSE)
    /\ steps' = steps + 1
    /\ UNCHANGED <<history, stored, diffs>>
    /\ UNCHANGED registryVars
    /\ UNCHANGED txVars

\* button -> handle_message with (MessageKind.EMPTY,): no branch is taken
HandleEmpty ==
    /\ steps < MaxSteps
    /\ reply' = REPLY_NONE
    /\ last' = Message("empty", 0, 0, 0, FALSE)
    /\ steps' = steps + 1
    /\ UNCHANGED <<history, stored, diffs>>
    /\ UNCHANGED registryVars
    /\ UNCHANGED txVars

\* handle_message, WORKOUT_START: workouts.make_workout_template is no
\* attribute of src/workouts.py, so line 119 raises AttributeError after
\* get_workouts and before the append
HandleWorkoutStart ==
    /\ steps < MaxSteps
    /\ reply' = RAISED_ATTRIBUTE_ERROR
    /\ last' = Message("workout_start", 0, 0, 0, FALSE)
    /\ steps' = steps + 1
    /\ UNCHANGED <<history, stored, diffs>>
    /\ UNCHANGED registryVars
    /\ UNCHANGED txVars

\* handle_message, WORKOUT_RENDER
HandleWorkoutRender(w) ==
    /\ steps < MaxSteps
    /\ reply' = REPLY_RESUMING
    /\ last' = Message("workout_render", w, 0, 0, FALSE)
    /\ steps' = steps + 1
    /\ UNCHANGED <<history, stored, diffs>>
    /\ UNCHANGED registryVars
    /\ UNCHANGED txVars

\* handle_message, SET_TOGGLE_COMPLETE
HandleSetToggleComplete(w, e, s) ==
    /\ steps < MaxSteps
    /\ history' = [history EXCEPT ![w].exercises[e].sets[s] =
                      toggle_set_completed(history[w].exercises[e].sets[s])]
    /\ stored' = history'
    /\ reply' = REPLY_MARKUP
    /\ last' = Message("set_toggle_complete", w, e, s, FALSE)
    /\ steps' = steps + 1
    /\ UNCHANGED diffs
    /\ UNCHANGED registryVars
    /\ UNCHANGED txVars

\* handle_message, EXERCISE_CHANGE_REPS
HandleExerciseChangeReps(w, e, increase) ==
    /\ steps < MaxSteps
    /\ history' = [history EXCEPT ![w].exercises[e] =
                      change_reps(history[w].exercises[e], increase)]
    /\ stored' = history'
    /\ reply' = REPLY_MARKUP
    /\ last' = Message("exercise_change_reps", w, e, 0, increase)
    /\ steps' = steps + 1
    /\ UNCHANGED diffs
    /\ UNCHANGED registryVars
    /\ UNCHANGED txVars

\* handle_message, EXERCISE_CHANGE_WEIGHT
HandleExerciseChangeWeight(w, e, increase) ==
    /\ steps < MaxSteps
    /\ history' = [history EXCEPT ![w].exercises[e] =
                      change_weight(history[w].exercises[e], increase)]
    /\ stored' = history'
    /\ reply' = REPLY_MARKUP
    /\ last' = Message("exercise_change_weight", w, e, 0, increase)
    /\ steps' = steps + 1
    /\ UNCHANGED diffs
    /\ UNCHANGED registryVars
    /\ UNCHANGED txVars

\* The progression engine: Workout.make_next on the session's history; the
\* workout it returns joins the history, which the session owns.
MakeNext ==
    /\ steps < MaxSteps
    /\ Len(history) < MaxHistory
    /\ LET r == make_next(history, long_cycle_workout_templates)
       IN  /\ history' = Append(history, r.workout)
           /\ diffs' = r.diffs
    /\ reply' = REPLY_NONE
    /\ last' = Message("make_next", Len(history) + 1, 0, 0, FALSE)
    /\ steps' = steps + 1
    /\ UNCHANGED stored
    /\ UNCHANGED registryVars
    /\ UNCHANGED txVars

Next ==
    \/ ButtonUnknown
    \/ HandleEmpty
    \/ HandleWorkoutStart
    \/ \E w \in Workouts : HandleWorkoutRender(w)
    \/ \E w \in Workouts : \E e \in ExercisesOf(w) : \E s \in SetsOf(w, e) :
           HandleSetToggleComplete(w, e, s)
    \/ \E w \in Workouts : \E e \in ExercisesOf(w) : \E increase \in BOOLEAN :
           HandleExerciseChangeReps(w, e, increase)
    \/ \E w \in Workouts : \E e \in ExercisesOf(w) : \E increase \in BOOLEAN :
           HandleExerciseChangeWeight(w, e, increase)
    \/ MakeNext

Spec == Init /\ [][Next]_vars

\* The session of a user with a longer stored history, and the messages that
\* change workouts.
BaselineInit ==
    /\ history = StoredLong
    /\ stored = history
    /\ diffs = <<>>
    /\ reply = REPLY_NONE
    /\ last = Message("none", 0, 0, 0, FALSE)
    /\ steps = 0
    /\ entries = <<>>
    /\ issued = 0
    /\ calls = <<>>
    /\ outcome = [op |-> "none", token |-> 0, result |-> "none"]
    /\ TxIdle

BaselineNext ==
    \/ /\ steps < MaxBaselineSteps
       /\ \E w \in Workouts : \E e \in ExercisesOf(w) : \E s \in SetsOf(w, e) :
              HandleSetToggleComplete(w, e, s)
    \/ /\ steps < MaxBaselineSteps
       /\ \E w \in Workouts : \E e \in ExercisesOf(w) : \E increase \in BOOLEAN :
              HandleExerciseChangeReps(w, e, increase)
    \/ /\ steps < MaxBaselineSteps
       /\ \E w \in Workouts : \E e \in ExercisesOf(w) : \E increase \in BOOLEAN :
              HandleExerciseChangeWeight(w, e, increase)
    \/ /\ steps < MaxBaselineSteps
       /\ MakeNext

BaselineSpec == BaselineInit /\ [][BaselineNext]_vars

-----------------------------------------------------------------------------
(* The action registry of spec section 4.2.  A token is the number of the    *)
(* registration that made it, which keeps tokens unique; an entry holds its  *)
(* token and the kind of the action stored.  calls[t] counts the             *)
(* invocations of the action registered under token t.                       *)

MaxRegistrations == limit + 3

Live == {entries[i].token : i \in DOMAIN entries}
EntryOf(t) == entries[CHOOSE i \in DOMAIN entries : entries[i].token = t]

Outcome(op, token, result) == [op |-> op, token |-> token, result |-> result]

\* eviction that drops the newest limit/10 entries instead of the oldest
evict_newest(live_entries) ==
    IF Len(live_entries) > limit
    THEN SubSeq(live_entries, 1, Len(live_entries) - (limit \div 10))
    ELSE live_entries

\* the entries register leaves before it inserts the new one: with more than
\* limit entries live, the oldest limit/10 go
evict(live_entries) ==
    IF Len(live_entries) > limit
    THEN SubSeq(live_entries, (limit \div 10) + 1, Len(live_entries))
    ELSE live_entries

\* register(action) -> token
register(kind) ==
    /\ issued < MaxRegistrations
    /\ entries' = Append(evict(entries), [token |-> issued + 1, kind |-> kind])
    /\ issued' = issued + 1
    /\ calls' = Append(calls, 0)
    /\ outcome' = Outcome("register", issued + 1, "token")
    /\ UNCHANGED workoutVars
    /\ UNCHANGED txVars

Register == register("action")

\* register_noop() -> token
RegisterNoop ==
    /\ Cardinality({t \in 1..issued : t \in Live /\ EntryOf(t).kind = "noop"}) < MaxNoops
    /\ register("noop")

TotalRuns ==
    LET RECURSIVE Sum(_)
        Sum(c) == IF c = <<>> THEN 0 ELSE Head(c) + Sum(Tail(c))
    IN  Sum(calls)

\* run that consumes the entry (single use)
RunLive_single_use(t) ==
    /\ TotalRuns < MaxRuns
    /\ t \in Live
    /\ calls' = [calls EXCEPT ![t] = calls[t] + 1]
    /\ outcome' = Outcome("run", t, IF EntryOf(t).kind = "noop" THEN "nothing" ELSE "result")
    /\ entries' = SelectSeq(entries, LAMBDA x : x.token # t)
    /\ UNCHANGED issued
    /\ UNCHANGED workoutVars
    /\ UNCHANGED txVars

\* run(token), token live: the stored action is invoked, the entry stays
RunLive(t) ==
    /\ TotalRuns < MaxRuns
    /\ t \in Live
    /\ calls' = [calls EXCEPT ![t] = calls[t] + 1]
    /\ outcome' = Outcome("run", t, IF EntryOf(t).kind = "noop" THEN "nothing" ELSE "result")
    /\ UNCHANGED <<entries, issued>>
    /\ UNCHANGED workoutVars
    /\ UNCHANGED txVars

\* run(token), token absent (evicted, or never registered): UnknownActionError
RunAbsent(t) ==
    /\ TotalRuns < MaxRuns
    /\ t \notin Live
    /\ outcome' = Outcome("run", t, "UnknownActionError")
    /\ UNCHANGED <<entries, issued, calls>>
    /\ UNCHANGED workoutVars
    /\ UNCHANGED txVars

RegistryInit ==
    /\ history = <<>>
    /\ stored = history
    /\ diffs = <<>>
    /\ reply = REPLY_NONE
    /\ last = Message("none", 0, 0, 0, FALSE)
    /\ steps = 0
    /\ entries = <<>>
    /\ issued = 0
    /\ calls = <<>>
    /\ outcome = Outcome("none", 0, "none")
    /\ TxIdle

RegistryNext ==
    \/ Register
    \/ RegisterNoop
    \/ \E t \in 1..issued : RunLive(t)
    \/ \E t \in 1..(issued + 1) : RunAbsent(t)

RegistrySpec == RegistryInit /\ [][RegistryNext]_vars

-----------------------------------------------------------------------------
(* src/db.py: Transaction, the `with` context.  A with statement calls       *)
(* __enter__, runs its body and calls __exit__ with the exception the body   *)
(* ended with, if any; when __enter__ raises, neither the body nor __exit__  *)
(* runs.  Any statement may fail: execute then raises sqlite3.Error.         *)

Statement(sql, ok) == [sql |-> sql, ok |-> ok]

\* what the body of a with statement executes: reads (db.py lines 145, 123)
\* and writes
BodySql == {"SELECT", "INSERT"}

BodyStatements == {i \in DOMAIN tx_log : tx_log[i].sql \in BodySql}

\* __exit__ without try/finally: a failing COMMIT or ROLLBACK skips the close
Transaction_exit_no_finally(exc_type_is_none, statement_ok) ==
    [executed |-> IF exc_type_is_none THEN <<Statement("COMMIT", statement_ok)>>
                  ELSE <<Statement("ROLLBACK", statement_ok)>>,
     cursor |-> IF statement_ok THEN "closed" ELSE "open"]

\* __exit__ that commits and then, after an exception, rolls back too
Transaction_exit_both(exc_type_is_none, statement_ok) ==
    [executed |-> IF exc_type_is_none THEN <<Statement("COMMIT", statement_ok)>>
                  ELSE <<Statement("COMMIT", TRUE), Statement("ROLLBACK", statement_ok)>>,
     cursor |-> "closed"]

\* Transaction.__exit__: what it executes on the cursor and how it leaves
\* the cursor, given whether exc_type is None and whether the statement
\* succeeds
Transaction_exit(exc_type_is_none, statement_ok) ==
    [executed |-> IF exc_type_is_none THEN <<Statement("COMMIT", statement_ok)>>
                  ELSE <<Statement("ROLLBACK", statement_ok)>>,
     cursor |-> "closed"]

\* Transaction.__init__
TxNew ==
    /\ tx_pc \in {"idle", "left", "enter failed"}
    /\ tx_count < MaxTransactions
    /\ tx_count' = tx_count + 1
    /\ tx_cursor' = "open"
    /\ tx_log' = <<>>
    /\ tx_exc' = "None"
    /\ tx_raised' = "None"
    /\ tx_pc' = "created"
    /\ UNCHANGED tx_active
    /\ UNCHANGED <<workoutVars, registryVars>>

\* Transaction.__enter__, BEGIN succeeds: the body starts
TxEnter ==
    /\ tx_pc = "created"
    /\ ~tx_active
    /\ tx_log' = Append(tx_log, Statement("BEGIN", TRUE))
    /\ tx_active' = TRUE
    /\ tx_pc' = "body"
    /\ UNCHANGED <<tx_cursor, tx_exc, tx_raised, tx_count>>
    /\ UNCHANGED <<workoutVars, registryVars>>

\* Transaction.__enter__, BEGIN fails (the database is locked, or an earlier
\* transaction is still open): the exception leaves the with statement,
\* __exit__ is not called
TxEnterFails ==
    /\ tx_pc = "created"
    /\ tx_log' = Append(tx_log, Statement("BEGIN", FALSE))
    /\ tx_raised' = "sqlite3.Error"
    /\ tx_pc' = "enter failed"
    /\ UNCHANGED <<tx_cursor, tx_exc, tx_active, tx_count>>
    /\ UNCHANGED <<workoutVars, registryVars>>

\* the body executes a statement on the cursor
TxExecute(sql) ==
    /\ tx_pc = "body"
    /\ Cardinality(BodyStatements) < MaxStatements
    /\ tx_log' = Append(tx_log, Statement(sql, TRUE))
    /\ UNCHANGED <<tx_pc, tx_cursor, tx_exc, tx_raised, tx_active, tx_count>>
    /\ UNCHANGED <<workoutVars, registryVars>>

\* a statement of the body fails; sqlite may have rolled the transaction
\* back by itself (still_active = FALSE)
TxExecuteFails(sql, still_active) ==
    /\ tx_pc = "body"
    /\ Cardinality(BodyStatements) < MaxStatements
    /\ tx_log' = Append(tx_log, Statement(sql, FALSE))
    /\ tx_exc' = "sqlite3.Error"
    /\ tx_active' = still_active
    /\ tx_pc' = "leaving"
    /\ UNCHANGED <<tx_cursor, tx_raised, tx_count>>
    /\ UNCHANGED <<workoutVars, registryVars>>

\* the body ends without an exception
TxBodyEnds ==
    /\ tx_pc = "body"
    /\ tx_exc' = "None"
    /\ tx_pc' = "leaving"
    /\ UNCHANGED <<tx_cursor, tx_log, tx_raised, tx_active, tx_count>>
    /\ UNCHANGED <<workoutVars, registryVars>>

\* the body raises an exception of its own (db.py line 148)
TxBodyRaises ==
    /\ tx_pc = "body"
    /\ tx_exc' = "sqlite3.OperationalError"
    /\ tx_pc' = "leaving"
    /\ UNCHANGED <<tx_cursor, tx_log, tx_raised, tx_active, tx_count>>
    /\ UNCHANGED <<workoutVars, registryVars>>

\* Transaction.__exit__.  COMMIT and ROLLBACK end the transaction when they
\* succeed; ROLLBACK fails when no transaction is open.  A failing statement
\* raises out of __exit__; otherwise the body's exception, if any, goes on.
TxExit(statement_ok) ==
    /\ tx_pc = "leaving"
    /\ (tx_exc # "None" /\ ~tx_active) => ~statement_ok
    /\ LET done == Transaction_exit(tx_exc = "None", statement_ok)
       IN  /\ tx_log' = tx_log \o done.executed
           /\ tx_cursor' = done.cursor
    /\ tx_active' = IF statement_ok THEN FALSE ELSE tx_active
    /\ tx_raised' = IF statement_ok THEN tx_exc ELSE "sqlite3.Error"
    /\ tx_pc' = "left"
    /\ UNCHANGED <<tx_exc, tx_count>>
    /\ UNCHANGED <<workoutVars, registryVars>>

TransactionInit ==
    /\ history = <<>>
    /\ stored = history
    /\ diffs = <<>>
    /\ reply = REPLY_NONE
    /\ last = Message("none", 0, 0, 0, FALSE)
    /\ steps = 0
    /\ entries = <<>>
    /\ issued = 0
    /\ calls = <<>>
    /\ outcome = Outcome("none", 0, "none")
    /\ TxIdle

TransactionNext ==
    \/ TxNew
    \/ TxEnter
    \/ TxEnterFails
    \/ \E sql \in BodySql : TxExecute(sql)
    \/ \E sql \in BodySql : \E still_active \in BOOLEAN : TxExecuteFails(sql, still_active)
    \/ TxBodyEnds
    \/ TxBodyRaises
    \/ \E statement_ok \in BOOLEAN : TxExit(statement_ok)

TransactionSpec == TransactionInit /\ [][TransactionNext]_vars

-----------------------------------------------------------------------------
(* Claims about Workout.make_next.  In a state whose latest step is MakeNext *)
(* the history is the argument of the call followed by the workout it        *)
(* returned, and diffs is the list it returned.                              *)

AfterMakeNext == last.kind = "make_next"
Catalog == long_cycle_workout_templates
PreviousWorkouts == SubSeq(history, 1, Len(history) - 1)
NewWorkout == Last(history)

\* the catalog positions whose name is the template_name of the last workout
\* of h
LastTemplateHits(h) ==
    IF h = <<>> THEN {}
    ELSE {i \in 1..Len(Catalog) : Catalog[i].name = Last(h).template_name}

\* C1's selection rule, read off the claim
SelectedTemplate(h) ==
    IF LastTemplateHits(h) = {} THEN Catalog[1]
    ELSE Catalog[(Min(LastTemplateHits(h)) % Len(Catalog)) + 1]

\* C1: the template make_next selects is catalog[0] for an empty history and
\* for a last workout whose template_name no catalog entry carries, and is
\* otherwise the entry after (cyclically) the first entry that carries it.
C1_TemplateRotation ==
    AfterMakeNext =>
        /\ NewWorkout.template_name = SelectedTemplate(PreviousWorkouts).name
        /\ Len(NewWorkout.exercises) = Len(SelectedTemplate(PreviousWorkouts).exercises)
        /\ \A e \in DOMAIN NewWorkout.exercises :
               NewWorkout.exercises[e].template =
                   SelectedTemplate(PreviousWorkouts).exercises[e]

\* the last template of the history was the catalog's last, and the new
\* workout is of the catalog's first
C1_Witness ==
    /\ AfterMakeNext
    /\ Len(PreviousWorkouts) > 0
    /\ Last(PreviousWorkouts).template_name = Catalog[Len(Catalog)].name
    /\ NewWorkout.template_name = Catalog[1].name

\* The exercise a new exercise is compared with (C2-C4): the first exercise
\* of that name in the newest earlier workout of the new workout's template
\* and, with no such workout, the template's own defaults.
ReferenceWorkout ==
    LET same == {i \in 1..Len(PreviousWorkouts) :
                    PreviousWorkouts[i].template_name = NewWorkout.template_name}
    IN  IF same = {} THEN from_template(SelectedTemplate(PreviousWorkouts))
        ELSE PreviousWorkouts[Max(same)]

HasReference(e) ==
    \E i \in DOMAIN ReferenceWorkout.exercises :
        ReferenceWorkout.exercises[i].template.name = NewWorkout.exercises[e].template.name

ReferenceSets(e) ==
    LET at == {i \in DOMAIN ReferenceWorkout.exercises :
                  ReferenceWorkout.exercises[i].template.name
                      = NewWorkout.exercises[e].template.name}
    IN  ReferenceWorkout.exercises[Min(at)].sets

BaseWeight(e) == Min({ReferenceSets(e)[i].weight : i \in DOMAIN ReferenceSets(e)})
BaseReps(e) == Max({ReferenceSets(e)[i].reps : i \in DOMAIN ReferenceSets(e)})
NumCompleted(e) ==
    Cardinality({i \in DOMAIN ReferenceSets(e) : ReferenceSets(e)[i].completed})
AllCompleted(e) == NumCompleted(e) = Len(ReferenceSets(e))
SomeCompleted(e) == NumCompleted(e) > 0 /\ NumCompleted(e) < Len(ReferenceSets(e))
NoneCompleted(e) == NumCompleted(e) = 0

NewExercises == DOMAIN NewWorkout.exercises
NewSets(e) == NewWorkout.exercises[e].sets
WeightDelta(e) == NewWorkout.exercises[e].template.weight_delta

\* the diffs emitted for exercise e
DiffsOf(e) ==
    {j \in DOMAIN diffs : diffs[j].exercise_name = NewWorkout.exercises[e].template.name}

\* C2: when every set of the reference exercise is completed, every set of
\* the new exercise has weight round(base_weight + weight_delta, 2), reps
\* base_reps and is not completed, and the exercise's diff is "all" with
\* weight_before base_weight and weight_after base_weight + weight_delta.
C2_ProgressionOnSuccess ==
    AfterMakeNext =>
        \A e \in NewExercises :
            (HasReference(e) /\ AllCompleted(e)) =>
                /\ \A i \in DOMAIN NewSets(e) :
                       /\ NewSets(e)[i].weight = Round2(BaseWeight(e) + WeightDelta(e))
                       /\ NewSets(e)[i].reps = BaseReps(e)
                       /\ NewSets(e)[i].completed = FALSE
                /\ DiffsOf(e) # {}
                /\ \A j \in DiffsOf(e) :
                       /\ diffs[j].sets_completed = "all"
                       /\ diffs[j].weight_before = BaseWeight(e)
                       /\ diffs[j].weight_after = BaseWeight(e) + WeightDelta(e)

\* a new exercise whose reference had all its sets completed, at sets that
\* differ in weight
C2_Witness ==
    /\ AfterMakeNext
    /\ \E e \in NewExercises :
           /\ HasReference(e) /\ AllCompleted(e)
           /\ \E i \in DOMAIN ReferenceSets(e) : ReferenceSets(e)[i].weight # BaseWeight(e)
           /\ WeightDelta(e) > 0

\* C3: when some but not all sets of the reference exercise are completed,
\* every set of the new exercise has weight round(base_weight -
\* weight_delta, 2), not clamped at 0, and reps max(0, base_reps - 1), and
\* the exercise's diff is "some".
C3_RegressionOnPartial ==
    AfterMakeNext =>
        \A e \in NewExercises :
            (HasReference(e) /\ SomeCompleted(e)) =>
                /\ \A i \in DOMAIN NewSets(e) :
                       /\ NewSets(e)[i].weight = Round2(BaseWeight(e) - WeightDelta(e))
                       /\ NewSets(e)[i].reps = Max({0, BaseReps(e) - 1})
                /\ DiffsOf(e) # {}
                /\ \A j \in DiffsOf(e) : diffs[j].sets_completed = "some"

\* a new exercise of negative weight after a partly completed reference
C3_Witness ==
    /\ AfterMakeNext
    /\ \E e \in NewExercises :
           /\ HasReference(e) /\ SomeCompleted(e)
           /\ \A i \in DOMAIN NewSets(e) : NewSets(e)[i].weight < 0

\* C4: when no set of the reference exercise is completed (the reference
\* being the template's defaults when the history has no earlier workout of
\* the template), every set of the new exercise has weight base_weight and
\* reps base_reps, and the diff is "none" with weight_after = weight_before
\* and reps_after = reps_before.
C4_NoChangeOnNone ==
    AfterMakeNext =>
        \A e \in NewExercises :
            (HasReference(e) /\ NoneCompleted(e)) =>
                /\ \A i \in DOMAIN NewSets(e) :
                       /\ NewSets(e)[i].weight = BaseWeight(e)
                       /\ NewSets(e)[i].reps = BaseReps(e)
                /\ DiffsOf(e) # {}
                /\ \A j \in DiffsOf(e) :
                       /\ diffs[j].sets_completed = "none"
                       /\ diffs[j].weight_before = BaseWeight(e)
                       /\ diffs[j].reps_before = BaseReps(e)
                       /\ diffs[j].weight_after = diffs[j].weight_before
                       /\ diffs[j].reps_after = diffs[j].reps_before

\* a new exercise after an earlier workout of the template, none of whose
\* sets was completed and whose weight is not the template's
C4_Witness ==
    /\ AfterMakeNext
    /\ \E e \in NewExercises :
           /\ HasReference(e) /\ NoneCompleted(e)
           /\ \E i \in 1..Len(PreviousWorkouts) :
                  PreviousWorkouts[i].template_name = NewWorkout.template_name
           /\ BaseWeight(e) # NewWorkout.exercises[e].template.weight

-----------------------------------------------------------------------------
(* Claims about the operations on a workout.  In a step, last' is the       *)
(* message the step handles, history the workouts before it and history'    *)
(* the workouts after it.                                                   *)

SetAt(h, w, e, i) == h[w].exercises[e].sets[i]
IsChange(m) == m.kind \in {"exercise_change_reps", "exercise_change_weight"}

\* C5: a change_reps or change_weight call, in either direction, leaves the
\* weight and reps (and the flag) of every set that is completed when it is
\* called as they were.
C5_CompletedSetImmutable ==
    [][ IsChange(last') =>
            \A w \in Workouts : \A e \in ExercisesOf(w) : \A i \in SetsOf(w, e) :
                SetAt(history, w, e, i).completed =>
                    SetAt(history', w, e, i) = SetAt(history, w, e, i) ]_vars

\* the exercise just changed holds a completed set and one that is not
C5_Witness ==
    /\ IsChange(last)
    /\ \E i \in SetsOf(last.w, last.e) : SetAt(history, last.w, last.e, i).completed
    /\ \E i \in SetsOf(last.w, last.e) : ~SetAt(history, last.w, last.e, i).completed

RepsNonNegative ==
    \A w \in Workouts : \A e \in ExercisesOf(w) : \A i \in SetsOf(w, e) :
        SetAt(history, w, e, i).reps >= 0

\* C6: every set of every workout has reps >= 0, whatever toggles, changes of
\* reps and weight and make_next calls came before, and a "reps down" leaves
\* a set that is not completed and has 0 reps at 0 reps.
C6_RepClamp ==
    /\ []RepsNonNegative
    /\ [][ (last'.kind = "exercise_change_reps" /\ ~last'.increase) =>
               \A i \in SetsOf(last'.w, last'.e) :
                   (/\ ~SetAt(history, last'.w, last'.e, i).completed
                    /\ SetAt(history, last'.w, last'.e, i).reps = 0)
                   => SetAt(history', last'.w, last'.e, i).reps = 0 ]_vars

\* the first step of the session was "reps down" on the stored exercise whose
\* second set is not completed and has 0 reps
C6_Witness ==
    /\ steps = 1
    /\ last = Message("exercise_change_reps", 1, 1, 0, FALSE)
    /\ SetAt(history, 1, 1, 2) = WorkoutSet(35000, 0, FALSE)
    /\ SetAt(history, 1, 1, 1) = WorkoutSet(40000, 1, TRUE)

\* C7: toggle_set_completed changes the completed flag of its set and nothing
\* else in any workout, and applied to the set again gives the set as it was
\* before the first call.
C7_ToggleInvolution ==
    [][ last'.kind = "set_toggle_complete" =>
            LET before == SetAt(history, last'.w, last'.e, last'.s)
                after == SetAt(history', last'.w, last'.e, last'.s)
            IN  /\ after.completed = ~before.completed
                /\ after.weight = before.weight
                /\ after.reps = before.reps
                /\ history' = [history EXCEPT
                                  ![last'.w].exercises[last'.e].sets[last'.s] = after]
                /\ toggle_set_completed(after) = before ]_vars

\* two toggles of one set have brought the session back to the stored
\* history it began with
C7_Witness ==
    /\ steps = 2
    /\ last.kind = "set_toggle_complete"
    /\ history = <<StoredPartial>>
    /\ SetAt(history, last.w, last.e, last.s).completed

-----------------------------------------------------------------------------
(* Claims about the action registry (RegistrySpec).  A token t is            *)
(* resolvable when t \in Live: run(t) then invokes the stored action, and    *)
(* signals UnknownActionError otherwise.                                     *)

OldestBatch == 1..(limit \div 10)

\* the latest run signalled UnknownActionError exactly if its token is absent
RunSignalsAbsence ==
    outcome.op = "run" =>
        (outcome.result = "UnknownActionError" <=> outcome.token \notin Live)

\* C8 as stated: once limit + 1 actions are registered, the oldest limit/10
\* tokens are unresolvable and the newest token is resolvable.
C8_EvictionAtLimitPlusOne ==
    issued = limit + 1 =>
        /\ \A t \in OldestBatch : t \notin Live
        /\ issued \in Live

\* C8 amended: limit + 1 registrations leave every token resolvable; once
\* limit + 2 actions are registered the oldest limit/10 tokens are
\* unresolvable (run signals UnknownActionError for them); the newest token
\* is always resolvable.
C8_EvictionAtLimitPlusTwo ==
    /\ RunSignalsAbsence
    /\ issued > 0 => issued \in Live
    /\ issued = limit + 1 => \A t \in 1..issued : t \in Live
    /\ issued = limit + 2 => \A t \in OldestBatch : t \notin Live

\* limit + 2 actions are registered and run has just signalled
\* UnknownActionError for the oldest token
C8_Witness ==
    /\ issued = limit + 2
    /\ outcome = Outcome("run", 1, "UnknownActionError")
    /\ issued \in Live

\* C9: run on a live token invokes the stored action once more and leaves
\* every entry in place, so a second run succeeds as well; a token stops
\* being live only in a register step that finds more than limit entries
\* live, and then it is one of the oldest limit/10.
C9_NonConsumption ==
    [][ /\ (outcome'.op = "run" /\ outcome'.token \in Live) =>
              /\ entries' = entries
              /\ calls'[outcome'.token] = calls[outcome'.token] + 1
              /\ outcome'.result # "UnknownActionError"
        /\ \A t \in Live :
              t \notin Live' =>
                  /\ outcome'.op = "register"
                  /\ Len(entries) > limit
                  /\ \E i \in OldestBatch : entries[i].token = t ]_vars

\* a token run twice, its action invoked twice, and still live
C9_Witness ==
    /\ outcome.op = "run"
    /\ outcome.token \in Live
    /\ outcome.result = "result"
    /\ calls[outcome.token] = 2

-----------------------------------------------------------------------------
(* Claim about button (Spec) *)

\* C10: a callback whose data is not a known message gets the reply "Fatal
\* bot error, unknown message!" and changes no workout, neither in the
\* session's history nor in the stored copy.
C10_UnknownSignalled ==
    [][ last'.kind = "unknown" =>
            /\ reply' = REPLY_FATAL
            /\ history' = history
            /\ stored' = stored
            /\ diffs' = diffs ]_vars

\* an unknown payload was answered in a session that holds a workout
C10_Witness ==
    /\ last.kind = "unknown"
    /\ reply = REPLY_FATAL
    /\ Len(history) > 0

-----------------------------------------------------------------------------
(* Claim about Transaction (TransactionSpec) *)

Executed(sql) == {i \in DOMAIN tx_log : tx_log[i].sql = sql}
ScopeEntered == tx_pc \in {"body", "leaving", "left"}

\* C11: a scope that is entered has BEGIN as its first statement; once it is
\* left exactly one of COMMIT and ROLLBACK has been executed, as the last
\* statement and none before, COMMIT when the body ended without an
\* exception and ROLLBACK when it ended with one, and the cursor is closed,
\* also when that COMMIT or ROLLBACK failed.
C11_TransactionScope ==
    /\ ScopeEntered =>
           /\ tx_log # <<>>
           /\ Executed("BEGIN") = {1}
           /\ tx_log[1].ok
    /\ tx_pc \in {"created", "body", "leaving", "enter failed"} =>
           /\ Executed("COMMIT") = {}
           /\ Executed("ROLLBACK") = {}
           /\ tx_cursor = "open"
    /\ tx_pc = "left" =>
           /\ Cardinality(Executed("COMMIT") \cup Executed("ROLLBACK")) = 1
           /\ Executed("COMMIT") = IF tx_exc = "None" THEN {Len(tx_log)} ELSE {}
           /\ Executed("ROLLBACK") = IF tx_exc = "None" THEN {} ELSE {Len(tx_log)}
           /\ tx_cursor = "closed"

\* a scope left by an exception whose ROLLBACK failed
C11_Witness ==
    /\ tx_pc = "left"
    /\ tx_exc # "None"
    /\ Last(tx_log) = Statement("ROLLBACK", FALSE)
    /\ tx_cursor = "closed"

-----------------------------------------------------------------------------
(* Claim about the baseline of Workout.make_next (BaselineSpec) *)

\* the earlier workouts of the new workout's template, oldest first
SameTemplateBefore ==
    {i \in 1..Len(PreviousWorkouts) :
        PreviousWorkouts[i].template_name = NewWorkout.template_name}

-----------------------------------------------------------------------------
\* Start-workout control flow (Spec)

\* the messages of handle_message other than WORKOUT_START, and the unknown
\* payload of button
OtherCommands ==
    {"empty", "workout_render", "set_toggle_complete", "exercise_change_reps", "exercise_change_weight", "unknown"}

\* C13: handling a start-workout command appends to the history exactly the
\* workout that make_next builds from the full history, and no other command
\* changes the length of the history.
C13_StartInvokesEngine ==
    [][ /\ last'.kind = "workout_start" =>
               history' = Append(history, make_next(history, long_cycle_workout_templates).workout)
        /\ last'.kind \in OtherCommands => Len(history') = Len(history) ]_vars

=============================================================================
